---- MODULE Spec2Model ----
(***************************************************************************)
(* A model of the gem-blog pages: the paginated home page, the /blog list  *)
(* with its search box, the tag cloud and the post detail page with its    *)
(* previous/next links.  A behaviour is one page load: the store is what   *)
(* it is, one route is requested, the page's setup runs and the visitor    *)
(* then acts on the page.  The variables are the refs and constants of the *)
(* pages' components.                                                      *)
(*                                                                         *)
(* Strings the code inspects character by character (titles, descriptions, *)
(* tags, search terms) are sequences of one-character strings.  A value    *)
(* that may be null/undefined is the empty sequence (None) or a one-       *)
(* element sequence (Some(v)).                                             *)
(***************************************************************************)
EXTENDS Integers, Sequences, FiniteSets, TLC

VARIABLES
    store,        \* the Content Store: the blog collection in the order .all() yields it
    route,        \* the page loaded: "none" (not yet), "home", "blog", "tags", "tag",
                  \* "post", or "error" when the page's setup threw
    pc,           \* home page: "none", or the fetch outstanding ("count", "window",
                  \* "refetch"), or "ready"
    pending,      \* home page: the pages k whose fetch under the key blog-page-k
                  \* is outstanding
    page,         \* home page: ref page
    totalCount,   \* home page: ref totalCount (None while null)
    posts,        \* the loaded page's ref posts (None while null)
    searchTerm,   \* /blog: ref searchTerm
    filteredCache, \* /blog: the value the computed filteredPosts holds (None
                  \* until its getter has run for the current posts and term)
    tags,         \* /tags: the value of the computed tags
    postPath,     \* post page: const postPath
    data,         \* post page: ref data, the current post
    allPosts,     \* post page: const allPosts
    currentIndex, \* post page: const currentIndex (0-based, -1 when not found)
    prev,         \* post page: const prev
    next,         \* post page: const next
    tag,          \* tag page: const tag, the route parameter (None elsewhere)
    query,        \* /blog: route.query, the parameters of the address
    rendered,     \* post page: the h2/h3 elements inside contentRef as the
                  \* article was rendered, in document order
    headings,     \* post page: the same elements as they are now
    otherIds,     \* post page: the ids of the other elements of the document
    toc,          \* post page: ref toc
    mounted       \* post page: the onMounted hook has run

vars == <<store, route, pc, pending, page, totalCount, posts, searchTerm, filteredCache, tags,
          postPath, data, allPosts, currentIndex, prev, next, tag, query,
          rendered, headings, otherIds, toc, mounted>>

\* The variables of the table of contents
tocVars == <<rendered, headings, otherIds, toc, mounted>>

---------------------------------------------------------------------------
(* Bounds of the model *)

MaxPosts == 3      \* longest store drawn from arbitrary arrangements of the pool
MaxCount == 13     \* longest store drawn for pagination
MaxTermLen == 2    \* longest search term enumerated over TermChars
MaxHeadings == 2   \* most h2/h3 headings in an article

---------------------------------------------------------------------------
(* Nullable values *)

None == <<>>
Some(v) == <<v>>
IsSome(o) == o # <<>>
Val(o) == o[1]

\* JavaScript's `x || d` for a nullable x whose non-null values are truthy
OrElse(o, d) == IF IsSome(o) THEN Val(o) ELSE d

---------------------------------------------------------------------------
(* Strings *)

UpperToLower ==
    [c \in {"A", "B", "C", "J", "L", "O", "Q", "S", "T", "V"} |->
        CASE c = "A" -> "a" [] c = "B" -> "b" [] c = "C" -> "c" [] c = "J" -> "j"
          [] c = "L" -> "l" [] c = "O" -> "o" [] c = "Q" -> "q" [] c = "S" -> "s"
          [] c = "T" -> "t" [] c = "V" -> "v"]

\* String.prototype.toLowerCase
toLowerCase(s) ==
    [i \in 1..Len(s) |-> IF s[i] \in DOMAIN UpperToLower THEN UpperToLower[s[i]] ELSE s[i]]

WhiteSpace == {" ", "\t"}

RECURSIVE trimStart(_)
trimStart(s) ==
    IF s # <<>> /\ Head(s) \in WhiteSpace THEN trimStart(Tail(s)) ELSE s

RECURSIVE trimEnd(_)
trimEnd(s) ==
    IF s # <<>> /\ s[Len(s)] \in WhiteSpace THEN trimEnd(SubSeq(s, 1, Len(s) - 1)) ELSE s

\* String.prototype.trim
trim(s) == trimEnd(trimStart(s))

\* String.prototype.includes: q occurs in s at some position
includes(s, q) ==
    \E i \in 0..(Len(s) - Len(q)) : SubSeq(s, i + 1, i + Len(q)) = q

\* Array.prototype.join on an array of strings
RECURSIVE join(_, _)
join(arr, sep) ==
    IF arr = <<>> THEN <<>>
    ELSE IF Len(arr) = 1 THEN arr[1]
    ELSE arr[1] \o sep \o join(Tail(arr), sep)

---------------------------------------------------------------------------
(* The Content Store *)

\* `/blog/${slug}`
postPathOf(slug) == <<"/blog/", slug>>

tagJava == <<"j", "a", "v", "a">>
tagJavaCapital == <<"J", "a", "v", "a">>
tagSpring == <<"s", "p", "r", "i", "n", "g">>
tagSql == <<"s", "q", "l">>
tagConstructor == <<"c", "o", "n", "s", "t", "r", "u", "c", "t", "o", "r">>

\* Front matter of the posts the stores are drawn from (title of at least 3
\* characters, description of at least 10, tags an array of strings).
Pool == <<
    [title |-> <<"S", "p", "r", "i", "n", "g", " ", "B", "o", "o", "t">>,
     description |-> <<"B", "o", "o", "t", " ", "a", "n", " ", "a", "p", "p">>,
     tags |-> <<tagJava, tagSpring>>],
    [title |-> <<"S", "Q", "L", " ", "T", "i", "p", "s">>,
     description |-> <<"T", "u", "n", "e", " ", "a", " ", "q", "u", "e", "r", "y">>,
     tags |-> <<tagSql>>],
    [title |-> <<"S", "t", "r", "e", "a", "m", "s">>,
     description |-> <<"L", "a", "z", "y", " ", "p", "i", "p", "e", "l", "i", "n", "e", "s">>,
     tags |-> <<tagJavaCapital>>],
    [title |-> <<"O", "b", "j", "e", "c", "t", "s">>,
     description |-> <<"C", "l", "a", "s", "s", " ", "s", "e", "t", "u", "p">>,
     tags |-> <<tagConstructor, tagJava, tagJava>>],
    [title |-> <<"V", "u", "e">>,
     description |-> <<"T", "e", "s", "t", " ", "p", "a", "g", "e", "s">>,
     tags |-> <<>>]
>>

\* The post stored under slug i, published on day i
Post(i) ==
    [path |-> postPathOf(i),
     title |-> Pool[((i - 1) % Len(Pool)) + 1].title,
     description |-> Pool[((i - 1) % Len(Pool)) + 1].description,
     tags |-> Pool[((i - 1) % Len(Pool)) + 1].tags,
     publishedAt |-> i]

Range(s) == {s[i] : i \in DOMAIN s}

\* Sequences over S without repetition, of length at most n
InjSeqs(S, n) ==
    UNION {{s \in [1..k -> S] : \A i, j \in 1..k : i # j => s[i] # s[j]} : k \in 0..n}

\* The stores: every arrangement of at most MaxPosts pool posts (paths are
\* unique), and the stores of 0..MaxCount posts that exercise pagination.
Stores ==
    {[i \in DOMAIN s |-> Post(s[i])] : s \in InjSeqs(1..Len(Pool), MaxPosts)}
    \cup {[i \in 1..n |-> Post(i)] : n \in 0..MaxCount}

\* Slugs a post page is opened with; no post is ever stored under slug 0
Slugs == 0..Len(Pool)

---------------------------------------------------------------------------
(* Query Layer: queryCollection('blog') and its builders *)

RECURSIVE insertByDateDesc(_, _)
insertByDateDesc(p, sorted) ==
    IF sorted = <<>> THEN <<p>>
    ELSE IF Head(sorted).publishedAt >= p.publishedAt
         THEN <<Head(sorted)>> \o insertByDateDesc(p, Tail(sorted))
         ELSE <<p>> \o sorted

RECURSIVE orderDesc(_)
\* .order('publishedAt', 'DESC'): newest first, stable
orderDesc(list) ==
    IF list = <<>> THEN <<>>
    ELSE insertByDateDesc(list[Len(list)], orderDesc(SubSeq(list, 1, Len(list) - 1)))

Min(a, b) == IF a <= b THEN a ELSE b

limitSkipClamped(list, n, k) ==
    IF k >= Len(list) THEN SubSeq(list, 1, Min(n, Len(list)))
    ELSE SubSeq(list, k + 1, Min(k + n, Len(list)))

limitSkipUnlimited(list, n, k) == SubSeq(list, k + 1, Len(list))

\* .limit(n).skip(k).all(): at most n rows after the first k
limitSkip(list, n, k) == SubSeq(list, k + 1, Min(k + n, Len(list)))

---------------------------------------------------------------------------
(* Home page *)

PAGE_SIZE == 6

MathCeilDivFloor(a, b) == a \div b

\* Math.ceil(a / b) for a >= 0, b >= 1
MathCeilDiv(a, b) == IF a % b = 0 THEN a \div b ELSE (a \div b) + 1

\* computed totalPages
totalPages == MathCeilDiv(OrElse(totalCount, 0), PAGE_SIZE)

pageWindowOverlapping(p) ==
    limitSkip(orderDesc(store), PAGE_SIZE, (p - 1) * (PAGE_SIZE - 1))

pageWindowSkipsPage(p) == limitSkip(orderDesc(store), PAGE_SIZE, p * PAGE_SIZE)

\* The page-window query of the posts fetch
pageWindow(p) == limitSkip(orderDesc(store), PAGE_SIZE, (p - 1) * PAGE_SIZE)

\* Arguments goToPage is called with
PageArgs == -1..(MathCeilDiv(MaxCount, PAGE_SIZE) + 1)

\* route.query of an address without parameters
NoQuery == [q |-> None, view |-> None, lang |-> None]

\* The state of a page's component while that page is not the one loaded
NoHome == pc = "none" /\ page = 1 /\ totalCount = None /\ pending = {}
NoBlog == searchTerm = <<>> /\ query = NoQuery /\ filteredCache = None
NoTag == tag = None
NoTags == tags = <<>>
NoPost == postPath = None /\ data = None /\ allPosts = <<>>
          /\ currentIndex = -1 /\ prev = None /\ next = None
          /\ rendered = <<>> /\ headings = <<>> /\ otherIds = {}
          /\ toc = <<>> /\ mounted = FALSE

\* Navigating to / : setup starts, page is 1 and nothing is fetched yet
OpenHome ==
    /\ route = "none"
    /\ route' = "home"
    /\ pc' = "count" /\ page' = 1 /\ totalCount' = None /\ posts' = None
    /\ pending' = {}
    /\ UNCHANGED <<store, searchTerm, filteredCache, tags,
                   postPath, data, allPosts, currentIndex, prev, next, tocVars, tag, query>>

\* useAsyncData('blog-count'): all.length, or null when the fetch fails; setup
\* goes on to useAsyncData(() => `blog-page-${page.value}`), whose first
\* fetch it awaits
FetchCount ==
    /\ route = "home" /\ pc = "count"
    /\ \E ok \in BOOLEAN :
          totalCount' = IF ok THEN Some(Len(store)) ELSE None
    /\ pc' = "window"
    /\ pending' = {page}
    /\ UNCHANGED <<store, route, page, posts, searchTerm, filteredCache, tags,
                   postPath, data, allPosts, currentIndex, prev, next, tocVars, tag, query>>

FetchWindowAnyKey(k) ==
    /\ route = "home" /\ pc \in {"window", "refetch"}
    /\ k \in pending
    /\ \E ok \in BOOLEAN :
          posts' = IF ok THEN Some(pageWindow(k)) ELSE None
    /\ pending' = pending \ {k}
    /\ pc' = IF pending \ {k} = {} THEN "ready" ELSE "refetch"
    /\ UNCHANGED <<store, route, page, totalCount, searchTerm, filteredCache, tags,
                   postPath, data, allPosts, currentIndex, prev, next, tocVars, tag, query>>

\* The fetch under the key blog-page-k completes with the window of page k,
\* or fails.  The ref posts is the data of the current key: it takes the
\* result (null on failure) when k is the current page; the result of a
\* fetch for another page goes to that key's data, which nothing shows.
FetchWindow(k) ==
    /\ route = "home" /\ pc \in {"window", "refetch"}
    /\ k \in pending
    /\ \E ok \in BOOLEAN :
          posts' = IF k # page THEN posts
                   ELSE IF ok THEN Some(pageWindow(k)) ELSE None
    /\ pending' = pending \ {k}
    /\ pc' = IF pending \ {k} = {} THEN "ready" ELSE "refetch"
    /\ UNCHANGED <<store, route, page, totalCount, searchTerm, filteredCache, tags,
                   postPath, data, allPosts, currentIndex, prev, next, tocVars, tag, query>>

goToPageOffByOne(p) ==
    /\ route = "home" /\ pc \in {"ready", "refetch"}
    /\ IF p < 0 \/ p > totalPages + 1 \/ p = page
       THEN UNCHANGED vars
       ELSE /\ page' = p
            /\ pending' = pending \cup {p}
            /\ pc' = "refetch"
            /\ UNCHANGED <<store, route, totalCount, posts, searchTerm, filteredCache, tags,
                           postPath, data, allPosts, currentIndex, prev, next, tocVars, tag, query>>

\* function goToPage(p): returns when p is out of range, else assigns page;
\* an assignment that changes page changes the key, which starts the fetch
\* under the new key while posts keeps its value
goToPage(p) ==
    /\ route = "home" /\ pc \in {"ready", "refetch"}
    /\ IF p < 1 \/ p > totalPages \/ p = page
       THEN UNCHANGED vars
       ELSE /\ page' = p
            /\ pending' = pending \cup {p}
            /\ pc' = "refetch"
            /\ UNCHANGED <<store, route, totalCount, posts, searchTerm, filteredCache, tags,
                           postPath, data, allPosts, currentIndex, prev, next, tocVars, tag, query>>

---------------------------------------------------------------------------
(* /blog list with search *)

\* Characters the enumerated search terms are made of
TermChars == {"a", "J", " "}

\* Search terms typed into the search box or carried in ?q=
Terms ==
    UNION {[1..k -> TermChars] : k \in 0..MaxTermLen}
    \cup {<<"j", "a", "v", "a">>, <<" ", "J", "A", "V", "A", " ">>,
          <<"a", " ", "s">>, <<"s", "q", "l">>, <<"t", "b">>, <<"\t", " ">>,
          <<"b", "o", "o", "t">>, <<"s", "e", "t", "u", "p">>, <<"z", "z">>,
          <<"p", "j">>}

postMatchesConcatenated(p, q) ==
    LET title == toLowerCase(p.title)
        desc == toLowerCase(p.description)
        tagsJoined == toLowerCase(join(p.tags, <<" ">>))
    IN  includes(title \o desc \o tagsJoined, q)

postMatchesNoTags(p, q) ==
    LET title == toLowerCase(p.title)
        desc == toLowerCase(p.description)
    IN  includes(title, q) \/ includes(desc, q)

\* The callback of list.filter in filteredPosts
postMatches(p, q) ==
    LET title == toLowerCase(p.title)
        desc == toLowerCase(p.description)
        tagsJoined == toLowerCase(join(p.tags, <<" ">>))
    IN  includes(title, q) \/ includes(desc, q) \/ includes(tagsJoined, q)

normalizeTermNoTrim(term) == toLowerCase(term)

\* const q = (searchTerm.value || '').trim().toLowerCase()
normalizeTerm(term) == toLowerCase(trim(term))

Reverse(list) == [i \in 1..Len(list) |-> list[Len(list) + 1 - i]]

filterPostsReversed(postsRef, term) ==
    LET list == OrElse(postsRef, <<>>)
        q == normalizeTerm(term)
    IN  IF q = <<>> THEN list
        ELSE Reverse(SelectSeq(list, LAMBDA p : postMatches(p, q)))

\* The body of the computed filteredPosts, for a posts ref and a search term;
\* list.filter keeps the elements passing the callback, in their order
filterPosts(postsRef, term) ==
    LET list == OrElse(postsRef, <<>>)
        q == normalizeTerm(term)
    IN  IF q = <<>> THEN list
        ELSE SelectSeq(list, LAMBDA p : postMatches(p, q))

\* computed filteredPosts
filteredPosts == filterPosts(posts, searchTerm)

\* The view and lang parameters of the addresses /blog is opened with; lang
\* stands for any parameter the page does not read
ViewAndLang ==
    {<<None, None>>, <<Some("list"), Some("en")>>, <<Some("grid"), None>>}

\* Values of the q parameter of the addresses /blog is opened with
QueryTerms ==
    {<<>>, <<"j", "a", "v", "a">>, <<" ", "J", "A", "V", "A", " ">>,
     <<"a", " ", "s">>, <<"\t", " ">>}

\* route.query of the addresses /blog is opened with
Queries ==
    {[q |-> q, view |-> vl[1], lang |-> vl[2]] :
        q \in {None} \cup {Some(t) : t \in QueryTerms}, vl \in ViewAndLang}

\* computed showList
showList == query.view = Some("list")

replaceQueryOnlyQ(rq, val) ==
    [q |-> IF val = <<>> THEN None ELSE Some(val), view |-> None, lang |-> None]

\* router.replace({ query: { ...route.query, q: val || undefined } }): the
\* address keeps its parameters except q, which is val, or absent for ''
replaceQuery(rq, val) ==
    [rq EXCEPT !.q = IF val = <<>> THEN None ELSE Some(val)]

\* Navigating to /blog?...: searchTerm starts as q or '', posts is
\* everything the store holds, or null when the fetch fails
OpenBlog(rq) ==
    /\ route = "none"
    /\ route' = "blog"
    /\ query' = rq
    /\ searchTerm' = OrElse(rq.q, <<>>)
    /\ filteredCache' = None
    /\ \E ok \in BOOLEAN :
          posts' = IF ok THEN Some(store) ELSE None
    /\ UNCHANGED <<store, pc, pending, page, totalCount, tags,
                   postPath, data, allPosts, currentIndex, prev, next, tocVars, tag>>

\* The search box (v-model) assigns searchTerm; when the value changes,
\* watch(searchTerm) runs its callback, which replaces the address
SetSearchTerm(t) ==
    /\ route = "blog"
    /\ IF t = searchTerm
       THEN UNCHANGED vars
       ELSE /\ searchTerm' = t
            /\ filteredCache' = None
            /\ query' = replaceQuery(query, t)
            /\ UNCHANGED <<store, route, pc, pending, page, totalCount, posts, tags,
                           postPath, data, allPosts, currentIndex, prev, next, tocVars,
                           tag>>

evaluateFilteredPostsInPlace ==
    /\ route = "blog" /\ filteredCache = None
    /\ filteredCache' = Some(filterPosts(posts, searchTerm))
    /\ posts' = Some(filterPosts(posts, searchTerm))
    /\ UNCHANGED <<store, route, pc, pending, page, totalCount, searchTerm, tags,
                   postPath, data, allPosts, currentIndex, prev, next, tocVars, tag, query>>

\* The getter of the computed filteredPosts runs, for the render: it reads
\* posts and searchTerm and returns the list the computed then holds
evaluateFilteredPosts ==
    /\ route = "blog" /\ filteredCache = None
    /\ filteredCache' = Some(filterPosts(posts, searchTerm))
    /\ UNCHANGED <<store, route, pc, pending, page, totalCount, posts, searchTerm, tags,
                   postPath, data, allPosts, currentIndex, prev, next, tocVars, tag, query>>

---------------------------------------------------------------------------
(* /tags: the tag cloud *)

\* JavaScript values a property of tagCounts can read as: a number n, the
\* function Object (the inherited `constructor`), the string made of that
\* function's source text followed by n characters "1", or undefined.
Number(n) == [kind |-> "number", n |-> n]
Undefined == [kind |-> "undefined", n |-> 0]
FunctionObject == [kind |-> "function", n |-> 0]
SourceTextPlus(n) == [kind |-> "string", n |-> n]

\* Keys every object literal inherits from Object.prototype (of these the
\* model's posts use `constructor`)
ObjectPrototypeKeys == {tagConstructor}

\* tagCounts is its own properties in insertion order: <<[name, count], ...>>
HasOwn(obj, key) == \E i \in DOMAIN obj : obj[i].name = key
OwnIndex(obj, key) == CHOOSE i \in DOMAIN obj : obj[i].name = key

\* tagCounts[tag]: the own property, else the inherited one, else undefined
getProp(obj, key) ==
    IF HasOwn(obj, key) THEN obj[OwnIndex(obj, key)].count
    ELSE IF key \in ObjectPrototypeKeys THEN FunctionObject
    ELSE Undefined

\* tagCounts[tag] = v: updates the own property or appends a new one
setProp(obj, key, v) ==
    IF HasOwn(obj, key)
    THEN [obj EXCEPT ![OwnIndex(obj, key)].count = v]
    ELSE Append(obj, [name |-> key, count |-> v])

\* (x || 0) + 1
orZeroPlusOne(x) ==
    CASE x.kind = "undefined" -> Number(1)
      [] x.kind = "number" -> Number(x.n + 1)
      [] x.kind = "function" -> SourceTextPlus(1)
      [] x.kind = "string" -> SourceTextPlus(x.n + 1)

RECURSIVE countTagsLowerCased(_, _)
countTagsLowerCased(tagList, tagCounts) ==
    IF tagList = <<>> THEN tagCounts
    ELSE countTagsLowerCased(
             Tail(tagList),
             setProp(tagCounts, toLowerCase(Head(tagList)),
                     orZeroPlusOne(getProp(tagCounts, toLowerCase(Head(tagList))))))

RECURSIVE countTags(_, _)
\* post.meta.tags?.forEach(tag => tagCounts[tag] = (tagCounts[tag] || 0) + 1)
countTags(tagList, tagCounts) ==
    IF tagList = <<>> THEN tagCounts
    ELSE countTags(Tail(tagList),
                   setProp(tagCounts, Head(tagList),
                           orZeroPlusOne(getProp(tagCounts, Head(tagList)))))

RECURSIVE countPostsAbortsOnAbsent(_, _)
countPostsAbortsOnAbsent(postList, tagCounts) ==
    IF postList = <<>> THEN tagCounts
    ELSE IF Head(postList).meta.tags = None THEN <<>>
    ELSE countPostsAbortsOnAbsent(
             Tail(postList), countTags(Head(postList).meta.tags[1], tagCounts))

RECURSIVE countPosts(_, _)
\* posts.value?.forEach(post => ...)
countPosts(postList, tagCounts) ==
    IF postList = <<>> THEN tagCounts
    ELSE countPosts(Tail(postList),
                    countTags(OrElse(Head(postList).meta.tags, <<>>), tagCounts))

\* b.count - a.count is a number only for two numbers, else NaN
IsNumber(e) == e.count.kind = "number"

\* The comparator is consistent when no two entries it calls equal (a NaN
\* result counts as 0) are separated by an entry it orders between them:
\* every count is a number, or all the numbers are equal
ConsistentComparator(entries) ==
    \/ \A i \in DOMAIN entries : IsNumber(entries[i])
    \/ \A i, j \in DOMAIN entries :
          IsNumber(entries[i]) /\ IsNumber(entries[j])
              => entries[i].count.n = entries[j].count.n

RECURSIVE insertByCountDesc(_, _)
insertByCountDesc(e, sorted) ==
    IF sorted = <<>> THEN <<e>>
    ELSE IF ~(IsNumber(e) /\ IsNumber(Head(sorted)))
            \/ Head(sorted).count.n >= e.count.n
         THEN <<Head(sorted)>> \o insertByCountDesc(e, Tail(sorted))
         ELSE <<e>> \o sorted

RECURSIVE stableSortByCountDesc(_)
stableSortByCountDesc(entries) ==
    IF entries = <<>> THEN <<>>
    ELSE insertByCountDesc(entries[Len(entries)],
                           stableSortByCountDesc(SubSeq(entries, 1, Len(entries) - 1)))

Rearrangements(entries) ==
    {[i \in DOMAIN entries |-> entries[f[i]]] :
        f \in {g \in [DOMAIN entries -> DOMAIN entries] :
                  \A i, j \in DOMAIN entries : i # j => g[i] # g[j]}}

\* .sort((a, b) => b.count - a.count): the stable sort when the comparator
\* is consistent, otherwise an order the engine chooses
sortOutcomes(entries) ==
    IF ConsistentComparator(entries)
    THEN {stableSortByCountDesc(entries)}
    ELSE Rearrangements(entries)

\* The values the computed tags can take for a posts ref
tagsOutcomes(postsRef) ==
    sortOutcomes(countPosts(OrElse(postsRef, <<>>), <<>>))

\* What queryContent('/blog').only(['tags']).find() yields for the code to
\* read post.meta.tags from; a post without tags has an empty tags array, or
\* (absent) no tags at all
tagRows(list, absent) ==
    [i \in DOMAIN list |->
        [meta |-> [tags |-> IF absent /\ list[i].tags = <<>> THEN None
                            ELSE Some(list[i].tags)]]]

\* Navigating to /tags
OpenTags ==
    /\ route = "none"
    /\ route' = "tags"
    /\ \E ok, absent \in BOOLEAN :
          posts' = IF ok THEN Some(tagRows(store, absent)) ELSE None
    /\ tags' \in tagsOutcomes(posts')
    /\ UNCHANGED <<store, pc, pending, page, totalCount, searchTerm, filteredCache,
                   postPath, data, allPosts, currentIndex, prev, next, tocVars, tag, query>>

---------------------------------------------------------------------------
(* /tags/[tag]: the posts of one tag *)

\* Tags the tag page is opened for; the last is a tag no post carries
TagArgs == {tagJava, tagSpring, tagSql, <<"g", "o">>}

\* Navigating to /tags/<t>: posts is what the query yields, every post of
\* the collection (its .where is commented out), or null when the fetch fails
OpenTag(t) ==
    /\ route = "none"
    /\ route' = "tag"
    /\ tag' = Some(t)
    /\ \E ok \in BOOLEAN :
          posts' = IF ok THEN Some(store) ELSE None
    /\ UNCHANGED <<store, pc, pending, page, totalCount, searchTerm, filteredCache, tags,
                   postPath, data, allPosts, currentIndex, prev, next, tocVars, query>>

---------------------------------------------------------------------------
(* /blog/[slug]: the post page *)

RECURSIVE findIndexFrom(_, _, _)
findIndexFrom(list, path, k) ==
    IF k >= Len(list) THEN -1
    ELSE IF list[k + 1].path = path THEN k
    ELSE findIndexFrom(list, path, k + 1)

\* allPosts.findIndex(post => post.path === postPath), 0-based, -1 if none
findIndex(list, path) == findIndexFrom(list, path, 0)

\* list[k] of a JavaScript array
At(list, k) == list[k + 1]

prevOfSkipsSecond(idx, list) ==
    IF idx > 1 THEN Some(At(list, idx - 1)) ELSE None

\* currentIndex > 0 ? allPosts[currentIndex - 1] : null
prevOf(idx, list) ==
    IF idx > 0 THEN Some(At(list, idx - 1)) ELSE None

\* currentIndex < allPosts.length - 1 ? allPosts[currentIndex + 1] : null
nextOf(idx, list) ==
    IF idx < Len(list) - 1 THEN Some(At(list, idx + 1)) ELSE None

firstOfList(list, path) ==
    IF list = <<>> THEN None ELSE Some(At(list, 0))

\* queryCollection('blog').path(p).first()
firstWithPath(list, path) ==
    IF findIndex(list, path) = -1 THEN None
    ELSE Some(At(list, findIndex(list, path)))

\* The setup of /blog/<slug>.  okData: the lookup of the post succeeds (its
\* failure is caught and gives null).  okAll: the fetch of the navigation
\* list succeeds; it is awaited outside any try or useAsyncData, so its
\* failure is thrown by setup and the page is replaced by the error page.
setupPost(slug, okData, okAll) ==
    /\ route = "none"
    /\ IF okAll
       THEN /\ route' = "post"
            /\ postPath' = Some(postPathOf(slug))
            /\ data' = IF okData THEN firstWithPath(store, postPathOf(slug))
                       ELSE None
            /\ allPosts' = store
            /\ currentIndex' = findIndex(store, postPathOf(slug))
            /\ prev' = prevOf(findIndex(store, postPathOf(slug)), store)
            /\ next' = nextOf(findIndex(store, postPathOf(slug)), store)
       ELSE /\ route' = "error"
            /\ UNCHANGED <<postPath, data, allPosts, currentIndex, prev, next>>
    /\ UNCHANGED <<store, pc, pending, page, totalCount, posts, searchTerm, filteredCache, tags,
                   tag, query, tocVars>>

\* Navigating to /blog/<slug>
OpenPost(slug) == \E okData, okAll \in BOOLEAN : setupPost(slug, okData, okAll)

\* <template v-if="data"> ... <template v-else>: the article, or Post Not Found
postView == IF IsSome(data) THEN "article" ELSE "notFound"

---------------------------------------------------------------------------
(* The post page's table of contents *)

LowerLetters ==
    {"a", "b", "c", "d", "e", "f", "g", "h", "i", "j", "k", "l", "m", "n", "o",
     "p", "q", "r", "s", "t", "u", "v", "w", "x", "y", "z"}

DigitChars == <<"0", "1", "2", "3", "4", "5", "6", "7", "8", "9">>

\* \w of a regular expression: [A-Za-z0-9_]
WordChars ==
    LowerLetters \cup DOMAIN UpperToLower
        \cup {DigitChars[i] : i \in DOMAIN DigitChars} \cup {"_"}

\* s.replace(/[^\w\s-]/g, '')
removeOtherChars(s) ==
    SelectSeq(s, LAMBDA c : c \in WordChars \cup WhiteSpace \cup {"-"})

RECURSIVE replaceSpaces(_)
\* s.replace(/\s+/g, '-')
replaceSpaces(s) ==
    IF s = <<>> THEN <<>>
    ELSE IF Head(s) \in WhiteSpace
         THEN <<"-">> \o replaceSpaces(trimStart(Tail(s)))
         ELSE <<Head(s)>> \o replaceSpaces(Tail(s))

\* const slugify
slugify(text) == replaceSpaces(trim(removeOtherChars(toLowerCase(text))))

RECURSIVE numberToString(_)
\* The decimal digits `${suffix}` writes
numberToString(n) ==
    IF n < 10 THEN <<DigitChars[n + 1]>>
    ELSE numberToString(n \div 10) \o <<DigitChars[(n % 10) + 1]>>

RECURSIVE toNumber(_)
\* Number(s) for a string of decimal digits
toNumber(s) ==
    IF s = <<>> THEN 0
    ELSE toNumber(SubSeq(s, 1, Len(s) - 1)) * 10
             + (CHOOSE d \in 0..9 : DigitChars[d + 1] = s[Len(s)])

\* String.prototype.slice(k)
slice(s, k) == SubSeq(s, k + 1, Len(s))

\* document.getElementById(id) finds an element: one of the headings hs or
\* one of the other elements; no element has the empty string as its id
getElementById(id, hs, others) ==
    /\ id # <<>>
    /\ \/ id \in others
       \/ \E i \in DOMAIN hs : hs[i].id = id

RECURSIVE ensureUnique(_, _, _, _)
\* The while loop: base, then base-1, base-2, ... until no element has the id
ensureUnique(base, suffix, hs, others) ==
    LET id == IF suffix = 0 THEN base
              ELSE base \o <<"-">> \o numberToString(suffix)
    IN  IF getElementById(id, hs, others)
        THEN ensureUnique(base, suffix + 1, hs, others)
        ELSE id

RECURSIVE forEachHeading(_, _, _, _)
\* headings.forEach from the i-th heading on: a heading without id is given
\* one, and every heading pushes its entry
forEachHeading(hs, others, i, entries) ==
    IF i > Len(hs) THEN [headings |-> hs, toc |-> entries]
    ELSE LET h == hs[i]
             id == IF h.id # <<>> THEN h.id
                   ELSE ensureUnique(slugify(h.textContent), 0, hs, others)
         IN  forEachHeading([hs EXCEPT ![i].id = id], others, i + 1,
                            Append(entries,
                                   [id |-> id,
                                    text |-> trim(h.textContent),
                                    level |-> toNumber(slice(h.tagName, 1))]))

idSql == <<"s", "q", "l">>

\* The headings articles are written with: 'SQL!' and 'SQL  1' without id,
\* 'SQL' with the id sql, a heading without text and one of punctuation only
HeadingPool ==
    {[tagName |-> <<"H", "2">>, textContent |-> <<"S", "Q", "L", "!">>, id |-> <<>>],
     [tagName |-> <<"H", "3">>, textContent |-> <<"S", "Q", "L", " ", " ", "1">>,
      id |-> <<>>],
     [tagName |-> <<"H", "2">>, textContent |-> <<"S", "Q", "L">>, id |-> idSql],
     [tagName |-> <<"H", "3">>, textContent |-> <<>>, id |-> <<>>],
     [tagName |-> <<"H", "2">>, textContent |-> <<" ", "?", " ">>, id |-> <<>>]}

\* el.querySelectorAll('h2, h3') of the articles
HeadingLists == UNION {[1..k -> HeadingPool] : k \in 0..MaxHeadings}

\* The ids of the elements of the page that are not headings of the article
OtherIdSets == {{}, {idSql}}

\* An id belongs to one element of a document
ValidDocument(hs, others) ==
    \A i \in DOMAIN hs :
        hs[i].id # <<>> =>
            /\ hs[i].id \notin others
            /\ \A j \in DOMAIN hs : hs[j].id = hs[i].id => j = i

\* onMounted: without the article (data is null) contentRef is null and the
\* hook returns; otherwise it reads the headings of the rendered article
onMounted ==
    /\ route = "post" /\ ~mounted
    /\ mounted' = TRUE
    /\ IF data = None
       THEN UNCHANGED <<rendered, headings, otherIds, toc>>
       ELSE \E hs \in HeadingLists, others \in OtherIdSets :
               /\ ValidDocument(hs, others)
               /\ rendered' = hs
               /\ otherIds' = others
               /\ headings' = forEachHeading(hs, others, 1, <<>>).headings
               /\ toc' = forEachHeading(hs, others, 1, <<>>).toc
    /\ UNCHANGED <<store, route, pc, pending, page, totalCount, posts, searchTerm,
                   filteredCache, tags, postPath, data, allPosts, currentIndex,
                   prev, next, tag, query>>

---------------------------------------------------------------------------
(* What the templates render *)

homeViewIgnoresLength == IF IsSome(posts) THEN "grid" ELSE "empty"

\* Home: v-if="posts && posts.length > 0" shows the grid with the pagination
\* controls below it, v-else the 'No posts yet' block
homeView ==
    IF IsSome(posts) /\ Len(Val(posts)) > 0 THEN "grid" ELSE "empty"

\* /blog: v-if="filteredPosts && filteredPosts.length" shows the posts, as a
\* list when showList and as cards otherwise, v-else the 'No posts found' block
blogView ==
    IF Len(filteredPosts) > 0
    THEN (IF showList THEN "list" ELSE "grid")
    ELSE "empty"

\* /tags: v-if="tags.length" shows the cloud, v-else the 'No tags found' block
tagsView == IF Len(tags) > 0 THEN "cloud" ELSE "empty"

\* /tags/<tag>: the template reads posts.length, which throws while posts
\* is null; otherwise v-if="posts.length" shows the grid and v-else the
\* 'No posts found' block
tagView ==
    IF posts = None THEN "crash"
    ELSE IF Len(Val(posts)) > 0 THEN "grid" ELSE "empty"

\* {{ posts.length }} ... found
tagFoundCount == Len(Val(posts))

\* What the visitor sees once the requested page's setup is over
view ==
    CASE route = "home" -> IF pc \in {"count", "window"} THEN "pending" ELSE homeView
      [] route = "blog" -> blogView
      [] route = "tags" -> tagsView
      [] route = "tag" -> tagView
      [] route = "post" -> postView
      [] route = "error" -> "crash"
      [] OTHER -> "pending"

---------------------------------------------------------------------------
(* The pagination controls of the home page *)

\* The controls are inside the block of the grid
controlsShown == route = "home" /\ pc \in {"ready", "refetch"} /\ homeView = "grid"

\* Prev: :disabled="page === 1"
prevDisabled == page = 1

\* Next: :disabled="page === totalPages"
nextDisabled == page = totalPages

\* The button of page p, one per p in 1..totalPages: :disabled="p === page"
numberDisabled(p) == p = page

\* A click on Prev: @click="goToPage(page - 1)"
ClickPrev == controlsShown /\ ~prevDisabled /\ goToPage(page - 1)

\* A click on Next: @click="goToPage(page + 1)"
ClickNext == controlsShown /\ ~nextDisabled /\ goToPage(page + 1)

\* A click on the button of page p: @click="goToPage(p)"
ClickNumber(p) ==
    controlsShown /\ p \in 1..totalPages /\ ~numberDisabled(p) /\ goToPage(p)

---------------------------------------------------------------------------
(* The site *)

Init ==
    /\ store \in Stores
    /\ route = "none"
    /\ posts = None
    /\ NoHome /\ NoBlog /\ NoTags /\ NoPost /\ NoTag

Next ==
    \/ OpenHome
    \/ FetchCount
    \/ \E k \in PageArgs : FetchWindow(k)
    \/ \E p \in PageArgs : goToPage(p)
    \/ ClickPrev
    \/ ClickNext
    \/ \E p \in PageArgs : ClickNumber(p)
    \/ \E rq \in Queries : OpenBlog(rq)
    \/ \E t \in Terms : SetSearchTerm(t)
    \/ evaluateFilteredPosts
    \/ OpenTags
    \/ \E t \in TagArgs : OpenTag(t)
    \/ \E slug \in Slugs : OpenPost(slug)
    \/ onMounted

Spec == Init /\ [][Next]_vars

\* The stores a redeployment of the site's content can leave behind
RedeployStores == {[i \in 1..n |-> Post(i)] : n \in 0..MaxCount}

\* The content is redeployed while the home page has a window fetch
\* outstanding: after the count was fetched and before the window is
\* fetched, the first time or after a change of page
Redeploy(s) ==
    /\ route = "home" /\ pc \in {"window", "refetch"}
    /\ s # store
    /\ store' = s
    /\ UNCHANGED <<route, pc, pending, page, totalCount, posts, searchTerm, filteredCache, tags,
                   postPath, data, allPosts, currentIndex, prev, next, tocVars, tag, query>>

NextRedeploy ==
    \/ Next
    \/ \E s \in RedeployStores : Redeploy(s)

\* The site with its content changing under the home page
SpecRedeploy == Init /\ [][NextRedeploy]_vars

---------------------------------------------------------------------------
(* Pagination Controller *)

\* C1: goToPage(p) with p < 1 or p > totalPages changes nothing: page and
\* every other variable keep the value they had before the call.
C1_GoToPageOutOfRangeIsNoOp ==
    [][\A p \in PageArgs :
          ((p < 1 \/ p > totalPages) /\ goToPage(p)) => UNCHANGED vars]_vars

\* On page 2 of 3, where goToPage(0) and goToPage(4) can be called
C1_Witness ==
    /\ route = "home" /\ page = 2 /\ totalPages = 3
    /\ ENABLED goToPage(0) /\ ENABLED goToPage(4)

\* C2: totalPages is the ceiling of totalCount / PAGE_SIZE, the least k with
\* k * PAGE_SIZE >= totalCount, where a null totalCount counts as 0; it is 0
\* when totalCount is 0 or null.
C2_TotalPagesIsCeiling ==
    LET n == IF totalCount = None THEN 0 ELSE totalCount[1]
    IN  /\ totalPages * PAGE_SIZE >= n
        /\ (totalPages - 1) * PAGE_SIZE < n
        /\ (n = 0 => totalPages = 0)

\* 13 posts counted: 3 pages
C2_Witness == route = "home" /\ totalCount = Some(13) /\ totalPages = 3

---------------------------------------------------------------------------
(* Filter/Search Layer *)

\* q occurs in s: some window of s spells q, character by character
OccursIn(q, s) ==
    \E start \in 1..(Len(s) - Len(q) + 1) :
        \A k \in 1..Len(q) : s[start + k - 1] = q[k]

\* The predicate of the search contract: the term occurs in the lower-cased
\* title, or description, or tags joined by single spaces
ContractMatch(p, q) ==
    \/ OccursIn(q, toLowerCase(p.title))
    \/ OccursIn(q, toLowerCase(p.description))
    \/ OccursIn(q, toLowerCase(join(p.tags, <<" ">>)))

OnlyWhiteSpace(term) == \A i \in 1..Len(term) : term[i] \in WhiteSpace

\* The list the search runs on
PostList == IF posts = None THEN <<>> ELSE posts[1]

\* C3: for a term that is not empty after trimming, a post of the list is in
\* filteredPosts exactly when the trimmed, lower-cased term occurs in its
\* lower-cased title, description or space-joined tags.
C3_FilterKeepsExactlyMatches ==
    (route = "blog" /\ ~OnlyWhiteSpace(searchTerm)) =>
        \A i \in 1..Len(PostList) :
            (PostList[i] \in Range(filteredPosts))
                <=> ContractMatch(PostList[i], toLowerCase(trim(searchTerm)))

\* Scenario B: "java" against the Spring Boot post (tags java, spring) and
\* the SQL Tips post (tag sql) keeps only the first
C3_Witness ==
    /\ route = "blog"
    /\ posts = Some(<<Post(1), Post(2)>>)
    /\ searchTerm = <<"j", "a", "v", "a">>
    /\ filteredPosts = <<Post(1)>>

\* C4: for an empty or whitespace-only term filteredPosts is the list itself.
C4_FilterIdentityOnBlankTerm ==
    (route = "blog" /\ OnlyWhiteSpace(searchTerm)) => filteredPosts = PostList

\* A term of two whitespace characters against three posts
C4_Witness ==
    /\ route = "blog"
    /\ searchTerm = <<"\t", " ">>
    /\ Len(PostList) = 3
    /\ filteredPosts = PostList

RECURSIVE IsSubsequence(_, _)
IsSubsequence(r, l) ==
    IF r = <<>> THEN TRUE
    ELSE IF l = <<>> THEN FALSE
    ELSE IF Head(r) = Head(l) THEN IsSubsequence(Tail(r), Tail(l))
    ELSE IsSubsequence(r, Tail(l))

\* C5: filteredPosts is a subsequence of the list: the kept posts in the
\* order of the list, none more often than in the list.
C5_FilterIsStable ==
    route = "blog" => IsSubsequence(filteredPosts, PostList)

\* Two posts kept around a dropped one
C5_Witness ==
    /\ route = "blog"
    /\ posts = Some(<<Post(3), Post(2), Post(1)>>)
    /\ searchTerm = <<" ", "J", "A", "V", "A", " ">>
    /\ filteredPosts = <<Post(3), Post(1)>>

---------------------------------------------------------------------------
(* Tag Aggregator *)

\* The tags sequences the aggregator reads, one per post (empty when absent)
TagLists ==
    LET rows == IF posts = None THEN <<>> ELSE posts[1]
    IN  [i \in DOMAIN rows |->
            IF rows[i].meta.tags = None THEN <<>> ELSE rows[i].meta.tags[1]]

RECURSIVE SumTo(_, _)
\* f[1] + ... + f[n]
SumTo(f, n) == IF n = 0 THEN 0 ELSE f[n] + SumTo(f, n - 1)

\* Number of (post, tag occurrence) pairs
TotalPairs == SumTo([i \in DOMAIN TagLists |-> Len(TagLists[i])], Len(TagLists))

\* Number of occurrences of a tag name over all tags sequences
Occurrences(name) ==
    SumTo([i \in DOMAIN TagLists |->
              Cardinality({k \in DOMAIN TagLists[i] : TagLists[i][k] = name})],
          Len(TagLists))

TagNames == UNION {Range(TagLists[i]) : i \in DOMAIN TagLists}

\* C6: the counts of the tag cloud's entries are numbers that sum to the
\* number of (post, tag occurrence) pairs.
C6_CountsSumToPairs ==
    route = "tags" =>
        /\ \A i \in DOMAIN tags : tags[i].count.kind = "number"
        /\ SumTo([i \in DOMAIN tags |-> tags[i].count.n], Len(tags)) = TotalPairs

\* C7: every tag name has one entry, whose count is the number of
\* occurrences of the name over all tags sequences.
C7_CountIsOccurrences ==
    route = "tags" =>
        \A name \in TagNames :
            \E i \in DOMAIN tags :
                /\ tags[i].name = name
                /\ tags[i].count = Number(Occurrences(name))

\* C8: each entry's count is a number >= the count of the entry after it.
C8_SortedByCountDescending ==
    route = "tags" =>
        \A i \in 1..(Len(tags) - 1) :
            /\ tags[i].count.kind = "number"
            /\ tags[i + 1].count.kind = "number"
            /\ tags[i].count.n >= tags[i + 1].count.n

---------------------------------------------------------------------------
(* Adjacent posts *)

\* C9: opened with a path that no post has, the post page has neither a
\* previous nor a next post.
C9_UnknownPathHasNoNeighbours ==
    (route = "post" /\ \A i \in DOMAIN allPosts : allPosts[i].path # postPath[1])
        => (prev = None /\ next = None)

\* C10: for the post at position i of the n posts of the navigation list,
\* previous is the post before it and next the post after it; previous is
\* none exactly when the post is the first, next exactly when it is the last.
C10_NeighboursAreAdjacent ==
    route = "post" =>
        \A i \in DOMAIN allPosts :
            allPosts[i].path = postPath[1] =>
                /\ prev = (IF i = 1 THEN None ELSE Some(allPosts[i - 1]))
                /\ next = (IF i = Len(allPosts) THEN None ELSE Some(allPosts[i + 1]))

\* Scenario D: the middle post of five
C10_Witness ==
    /\ route = "post"
    /\ Len(allPosts) = 5
    /\ postPath = Some(allPosts[3].path)
    /\ prev = Some(allPosts[2])
    /\ next = Some(allPosts[4])

---------------------------------------------------------------------------
(* Ordering of the lists *)

\* The neighbours a post has in a list: the posts just before and just after
\* each position holding a post of that path
NeighboursIn(list, path) ==
    {list[j] : j \in {k \in DOMAIN list :
                        \E i \in DOMAIN list :
                            /\ list[i].path = path
                            /\ (k = i - 1 \/ k = i + 1)}}

\* The posts the previous/next links of the post page lead to
LinkedPosts ==
    (IF prev = None THEN {} ELSE {prev[1]})
        \cup (IF next = None THEN {} ELSE {next[1]})

\* C11: the previous/next links of a post lead to its neighbours in the
\* posts ordered by publishedAt, the neighbours it has in the newest-first
\* home listing (whichever of the two is called previous).
C11_NeighboursAreChronological ==
    (route = "post" /\ currentIndex # -1) =>
        LinkedPosts = NeighboursIn(orderDesc(store), postPath[1])

\* No post is listed before a post with a later publishedAt
SortedByDateDesc(list) ==
    \A i, j \in DOMAIN list :
        i < j => list[i].publishedAt >= list[j].publishedAt

\* C12: the post listings of the home page, of /blog and of the tag page are
\* sorted by publishedAt descending: no post is listed before a post with a
\* later publishedAt.
C12_ListingsAreNewestFirst ==
    (route \in {"home", "blog", "tag"} /\ posts # None) =>
        SortedByDateDesc(posts[1])

---------------------------------------------------------------------------
(* The page window *)

\* Number of posts of the store published later than p: the zero-based
\* position of p in the newest-first sequence
PostsNewerThan(p) ==
    Cardinality({k \in DOMAIN store : store[k].publishedAt > p.publishedAt})

\* C13: the window fetched for the current page holds at most PAGE_SIZE
\* posts, the posts at zero-based positions skip .. skip + PAGE_SIZE - 1 of
\* the newest-first sequence that exist, in that order, where
\* skip = (page - 1) * PAGE_SIZE; with 13 posts counted, totalPages is 3 and
\* on page 2 the window is the 7th to 12th newest posts.
C13_WindowIsPageSlice ==
    (route = "home" /\ pc = "ready" /\ posts # None) =>
        LET skip == (page - 1) * PAGE_SIZE
            window == posts[1]
        IN  /\ Len(window) <= PAGE_SIZE
            /\ \A j \in 1..Len(window) :
                  /\ window[j] \in Range(store)
                  /\ PostsNewerThan(window[j]) = skip + j - 1
            /\ \A k \in DOMAIN store :
                  (/\ PostsNewerThan(store[k]) >= skip
                   /\ PostsNewerThan(store[k]) <= skip + PAGE_SIZE - 1)
                      => store[k] \in Range(window)
            /\ (Len(store) = 13 /\ totalCount = Some(13) /\ page = 2) =>
                  /\ totalPages = 3
                  /\ skip = 6
                  /\ Len(window) = 6

\* Scenario A: 13 posts, page 2 of 3 fetched: the 7th to 12th newest posts
C13_Witness ==
    /\ route = "home" /\ pc = "ready"
    /\ store = [i \in 1..13 |-> Post(i)]
    /\ totalPages = 3 /\ page = 2
    /\ posts = Some(<<Post(7), Post(6), Post(5), Post(4), Post(3), Post(2)>>)

---------------------------------------------------------------------------
(* The post page *)

\* The posts of the store with exactly the path of a slug
PostsAt(slug) == {p \in Range(store) : p.path = postPathOf(slug)}

---------------------------------------------------------------------------
(* Failing fetches and empty stores *)

\* C15: no page load ends in a crashed render, and a page whose list fetch
\* gave null shows its empty state, as it does for an empty list.
C15_FetchFailureNeverCrashes ==
    /\ view # "crash"
    /\ (route \in {"home", "blog", "tags", "tag"} /\ view # "pending"
            /\ posts = None)
          => view = "empty"

\* C16: with no post in the store, the home page shows 'No posts yet' (the
\* block holding the grid and the pagination controls is not rendered),
\* page is 1 and totalPages is 0; /blog shows 'No posts found' whatever the
\* search term; the tag cloud shows 'No tags found'.
C16_EmptyStoreShowsEmptyStates ==
    store = <<>> =>
        /\ (route = "home" /\ pc \in {"ready", "refetch"}) =>
              (homeView = "empty" /\ view = "empty" /\ page = 1)
        /\ route = "home" => totalPages = 0
        /\ route = "blog" => (blogView = "empty" /\ view = "empty")
        /\ route = "tags" => (tagsView = "empty" /\ view = "empty")

\* Scenario E on the home page: both fetches succeeded on an empty store
C16_Witness ==
    /\ store = <<>> /\ route = "home" /\ pc = "ready"
    /\ totalCount = Some(0) /\ posts = Some(<<>>)
    /\ view = "empty" /\ totalPages = 0

---------------------------------------------------------------------------
(* The tag page *)

\* The posts of the store whose tags sequence contains the tag t
PostsTagged(t) == SelectSeq(store, LAMBDA p : t \in Range(p.tags))

\* C17: the tag page of tag t lists exactly the posts whose tags contain t,
\* reports their number as the posts found, and shows 'No posts found'
\* exactly when no post carries t.
C17_TagPageListsTaggedPosts ==
    (route = "tag" /\ posts # None) =>
        /\ Range(posts[1]) = Range(PostsTagged(tag[1]))
        /\ tagFoundCount = Len(PostsTagged(tag[1]))
        /\ (tagView = "empty") <=> (PostsTagged(tag[1]) = <<>>)

---------------------------------------------------------------------------
(* The address of /blog *)

\* C18: when /blog is opened, searchTerm is the q parameter of the address,
\* or empty when there is none; every change of searchTerm leaves the address
\* with q equal to the new term, or without q when the term is empty, and
\* with its view and other parameters as they were; the posts are shown as a
\* list exactly when view is 'list', and as cards otherwise.
C18_AddressCarriesSearchAndView ==
    /\ [][route' = "blog" =>
              /\ route = "none" =>
                    searchTerm' = (IF query'.q = None THEN <<>>
                                   ELSE query'.q[1])
              /\ (route = "blog" /\ searchTerm' # searchTerm) =>
                    /\ query'.q = (IF searchTerm' = <<>> THEN None
                                   ELSE Some(searchTerm'))
                    /\ query'.view = query.view
                    /\ query'.lang = query.lang]_vars
    /\ [](route = "blog" =>
              /\ showList <=> (query.view = Some("list"))
              /\ Len(filteredPosts) > 0 =>
                    blogView = (IF query.view = Some("list") THEN "list"
                                ELSE "grid"))

\* /blog?view=list&lang=en after "sql" was typed: q is sql, view and lang are
\* kept and the matching post is shown in the list
C18_Witness ==
    /\ route = "blog"
    /\ searchTerm = <<"s", "q", "l">>
    /\ query = [q |-> Some(<<"s", "q", "l">>), view |-> Some("list"),
                lang |-> Some("en")]
    /\ blogView = "list"

---------------------------------------------------------------------------
(* Content changing between the count and the window *)

\* C19: when the content changes between the count fetch and a window
\* fetch, totalPages and the window can disagree, and the home page still
\* renders: it shows a window of at most PAGE_SIZE posts, newest first, or
\* its empty state, with page at least 1 and within the pages counted.
C19_StaleBoundsAreNotFatal ==
    (route = "home" /\ pc \in {"ready", "refetch"}) =>
        /\ view \in {"grid", "empty"}
        /\ view = "grid" =>
              /\ Len(posts[1]) \in 1..PAGE_SIZE
              /\ SortedByDateDesc(posts[1])
        /\ page >= 1
        /\ totalPages >= 1 => page <= totalPages

\* 13 posts counted, the content emptied, then page 2 of 3 fetched: a page
\* within 1..totalPages whose window is empty
C19_Witness ==
    /\ route = "home" /\ pc = "ready"
    /\ store = <<>>
    /\ totalCount = Some(13) /\ totalPages = 3 /\ page = 2
    /\ posts = Some(<<>>) /\ view = "empty"

\* One post counted, 13 deployed, then the window fetched: posts beyond the
\* last page counted
C19_WitnessBeyondLastPage ==
    /\ route = "home" /\ pc = "ready"
    /\ Len(store) = 13
    /\ totalPages = 1 /\ page = 1
    /\ posts # None /\ Len(posts[1]) = PAGE_SIZE

---------------------------------------------------------------------------
(* The page number *)

\* C20: page is 1 when the home page is opened and changes only by a call of
\* goToPage, to the argument of the call; in every state of the home page
\* page >= 1, page <= totalPages when totalPages >= 1, and page = 1 when
\* totalPages = 0.
C20_PageStaysInRange ==
    [][/\ (route = "none" /\ route' = "home") => page' = 1
       /\ page' # page =>
             \E p \in PageArgs : goToPage(p) /\ page' = p
       /\ route' = "home" =>
             /\ page' >= 1
             /\ totalPages' >= 1 => page' <= totalPages'
             /\ totalPages' = 0 => page' = 1]_vars

\* The last of three pages, reached by goToPage and fetched; Next is
\* disabled there and goToPage(4) is refused
C20_Witness ==
    /\ route = "home" /\ pc = "ready"
    /\ page = 3 /\ totalPages = 3
    /\ posts # None /\ Len(posts[1]) = 1

---------------------------------------------------------------------------
(* Letter case of tags *)

\* The names of the tag cloud's entries
EntryNames == {tags[i].name : i \in DOMAIN tags}

\* C21: the tag cloud has one entry per tag name as written, so names that
\* differ only in letter case have entries of their own; the search matches
\* a tag whatever the case of the tag or of the term: a post with a tag whose
\* lower-cased name is the trimmed, lower-cased term is kept.
C21_TagsVerbatimButSearchedLowerCased ==
    /\ route = "tags" =>
          /\ EntryNames = TagNames
          /\ Len(tags) = Cardinality(TagNames)
    /\ (route = "blog" /\ ~OnlyWhiteSpace(searchTerm)) =>
          \A i \in 1..Len(PostList) :
              (\E g \in Range(PostList[i].tags) :
                    toLowerCase(g) = toLowerCase(trim(searchTerm)))
                  => PostList[i] \in Range(filteredPosts)

\* 'java' and 'Java' carried by two posts: two entries in the tag cloud
C21_Witness ==
    /\ route = "tags"
    /\ store = <<Post(1), Post(3)>>
    /\ EntryNames = {tagJava, tagSpring, tagJavaCapital}
    /\ Len(tags) = 3

\* The term ' JAVA ' keeps the post tagged 'Java' and the post tagged 'java',
\* neither of which has java in its title or description
C21_WitnessSearch ==
    /\ route = "blog"
    /\ posts = Some(<<Post(3), Post(4), Post(2)>>)
    /\ searchTerm = <<" ", "J", "A", "V", "A", " ">>
    /\ filteredPosts = <<Post(3), Post(4)>>

---------------------------------------------------------------------------
(* Posts without tags *)

\* The rows the aggregator reads that carry at least one tag
RowsWithTags ==
    IF posts = None THEN <<>>
    ELSE SelectSeq(posts[1],
                   LAMBDA row : row.meta.tags # None /\ row.meta.tags[1] # <<>>)

\* C22: the tag cloud computed from the posts is the tag cloud computed from
\* the posts that carry at least one tag, whether the others have an empty
\* tags array or none; with no post list at all it is empty.
C22_UntaggedPostsContributeNothing ==
    route = "tags" =>
        /\ tagsOutcomes(posts) = tagsOutcomes(Some(RowsWithTags))
        /\ tags \in tagsOutcomes(Some(RowsWithTags))
        /\ posts = None => tags = <<>>
        /\ tagsOutcomes(None) = {<<>>}

\* A post without a tags field between two tagged posts
C22_Witness ==
    /\ route = "tags"
    /\ posts = Some(tagRows(<<Post(2), Post(5), Post(1)>>, TRUE))
    /\ posts[1][2].meta.tags = None
    /\ Len(RowsWithTags) = 2
    /\ Len(tags) = 3

---------------------------------------------------------------------------
(* Purity of the filter *)

\* C23: the value the computed filteredPosts holds is determined by the
\* post list and the search term alone, so evaluations with equal lists and
\* terms give equal values; a step in which the getter runs changes neither
\* the post list nor any post, nor the search term, nor the address, and
\* fetches nothing: everything but the computed's value stays as it was.
C23_FilterIsPure ==
    /\ [][(route = "blog" /\ filteredCache = None /\ filteredCache' # None) =>
              /\ posts' = posts
              /\ searchTerm' = searchTerm
              /\ query' = query
              /\ UNCHANGED <<store, route, pc, pending, page, totalCount, tags,
                             postPath, data, allPosts, currentIndex, prev,
                             next, tag>>]_vars
    /\ [](filteredCache # None =>
              /\ route = "blog"
              /\ filteredCache[1] = filterPosts(posts, searchTerm)
              /\ IsSubsequence(filteredCache[1], PostList))

\* The getter has run for ?q=java over two posts and kept one; the list,
\* the term and the address are as they were
C23_Witness ==
    /\ route = "blog"
    /\ posts = Some(<<Post(1), Post(2)>>)
    /\ searchTerm = <<"j", "a", "v", "a">>
    /\ query.q = Some(<<"j", "a", "v", "a">>)
    /\ filteredCache = Some(<<Post(1)>>)

---------------------------------------------------------------------------
(* Queries that match nothing *)

\* C24: a listing fetched from a store without posts is the empty sequence,
\* and a window fetched with a skip at or past the number of posts is the
\* empty sequence; neither is a failed fetch.
C24_NoMatchIsEmptyNotError ==
    /\ []((route \in {"blog", "tag"} /\ store = <<>> /\ posts # None) =>
              posts = Some(<<>>))
    /\ []((route = "home" /\ pc \in {"window", "refetch"}
                /\ (page - 1) * PAGE_SIZE >= Len(store)) =>
              pageWindow(page) = <<>>)
    /\ [][\A k \in PageArgs :
              (FetchWindow(k) /\ k = page
                  /\ (k - 1) * PAGE_SIZE >= Len(store)) =>
                  posts' \in {None, Some(<<>>)}]_vars

\* Page 2 of 3 counted pages fetched from a store that by then holds 6
\* posts: skip 6, no post left
C24_Witness ==
    /\ route = "home" /\ pc = "ready"
    /\ Len(store) = 6
    /\ totalPages = 3 /\ page = 2
    /\ posts = Some(<<>>)

---------------------------------------------------------------------------
(* The pages together *)

RECURSIVE WindowsUpTo(_)
\* The windows of pages 1..k one after the other
WindowsUpTo(k) == IF k = 0 THEN <<>> ELSE WindowsUpTo(k - 1) \o pageWindow(k)

\* C25: with the posts counted being the posts the windows are fetched from,
\* the windows of pages 1..totalPages, one after the other, are the
\* newest-first sequence of all posts: every post is on exactly one page,
\* every page holds at least one post, and every page but the last holds
\* PAGE_SIZE posts.
C25_WindowsPartitionThePosts ==
    (route = "home" /\ totalCount = Some(Len(store))) =>
        LET all == WindowsUpTo(totalPages)
        IN  /\ Len(all) = Len(store)
            /\ \A j \in 1..Len(all) :
                  /\ all[j] \in Range(store)
                  /\ PostsNewerThan(all[j]) = j - 1
            /\ \A i, j \in 1..Len(all) : i # j => all[i] # all[j]
            /\ \A p, r \in 1..totalPages :
                  p # r => Range(pageWindow(p)) \cap Range(pageWindow(r)) = {}
            /\ \A p \in 1..totalPages :
                  /\ Len(pageWindow(p)) >= 1
                  /\ p < totalPages => Len(pageWindow(p)) = PAGE_SIZE
            /\ pageWindow(totalPages + 1) = <<>>

\* 13 posts on 3 pages, the last page fetched: it holds the oldest post alone
C25_Witness ==
    /\ route = "home" /\ pc = "ready"
    /\ store = [i \in 1..13 |-> Post(i)]
    /\ totalCount = Some(13) /\ page = 3
    /\ posts = Some(<<Post(1)>>)
    /\ Len(WindowsUpTo(3)) = 13

---------------------------------------------------------------------------
(* The pagination controls *)

\* C26: while the pagination controls are shown, Prev is disabled exactly on
\* page 1 and Next exactly on page totalPages, the button of the current
\* page is disabled, and a click on any enabled control calls goToPage with a
\* page in 1..totalPages other than the current one, so that it changes page.
C26_EnabledControlsChangePage ==
    controlsShown =>
        /\ prevDisabled <=> (page = 1)
        /\ nextDisabled <=> (page = totalPages)
        /\ numberDisabled(page)
        /\ ~prevDisabled => (page - 1 >= 1 /\ page - 1 <= totalPages)
        /\ ~nextDisabled => (page + 1 >= 1 /\ page + 1 <= totalPages)
        /\ \A p \in 1..totalPages : ~numberDisabled(p) => p # page

---------------------------------------------------------------------------
(* Fetches outstanding while the page changes *)

\* C27: a goToPage that changes page leaves a fetch outstanding under the
\* key of the new page; whenever no fetch is outstanding for the current
\* page, the posts shown, if any, are the window of the current page, also
\* while fetches requested for earlier pages are still outstanding or
\* complete later.
C27_LastPageSetWins ==
    /\ [][page' # page => page' \in pending']_vars
    /\ []((route = "home" /\ pc \in {"ready", "refetch"}
               /\ page \notin pending /\ posts # None) =>
              posts[1] = pageWindow(page))
    /\ []((route = "home" /\ pc = "ready") => pending = {})

\* Page 2 then page 3 were requested; the fetch of page 3 has completed and
\* its post is shown while the fetch of page 2 is still outstanding
C27_Witness ==
    /\ route = "home" /\ pc = "refetch"
    /\ Len(store) = 13
    /\ page = 3 /\ pending = {2}
    /\ posts = Some(<<Post(1)>>)

\* Both fetches have completed, that of page 2 last: the post of page 3 is
\* still the one shown
C27_WitnessAllComplete ==
    /\ route = "home" /\ pc = "ready"
    /\ Len(store) = 13
    /\ page = 3 /\ pending = {}
    /\ posts = Some(<<Post(1)>>)

---------------------------------------------------------------------------
(* Matching within one field *)

\* The lower-cased fields of a post the search looks into
TitleOf(p) == toLowerCase(p.title)
DescriptionOf(p) == toLowerCase(p.description)
JoinedTagsOf(p) == toLowerCase(join(p.tags, <<" ">>))

\* q occurs inside one of the three fields
InOneField(q, p) ==
    \/ OccursIn(q, TitleOf(p))
    \/ OccursIn(q, DescriptionOf(p))
    \/ OccursIn(q, JoinedTagsOf(p))

\* q occurs in the fields written one after the other, with or without a
\* space between them
InFieldsTogether(q, p) ==
    \/ OccursIn(q, TitleOf(p) \o DescriptionOf(p) \o JoinedTagsOf(p))
    \/ OccursIn(q, TitleOf(p) \o <<" ">> \o DescriptionOf(p) \o <<" ">>
                       \o JoinedTagsOf(p))

\* q occurs in no tag alone
InNoSingleTag(q, p) ==
    \A i \in DOMAIN p.tags : ~OccursIn(q, toLowerCase(p.tags[i]))

\* C28: a term that occurs only across the boundary of two fields of a post
\* (the end of the title and the start of the description, or the end of the
\* description and the start of the tags) does not keep the post; a term
\* that occurs across two adjacent tags joined by one space does.
C28_MatchWithinOneField ==
    (route = "blog" /\ ~OnlyWhiteSpace(searchTerm)) =>
        LET q == toLowerCase(trim(searchTerm))
        IN  \A i \in 1..Len(PostList) :
                /\ (InFieldsTogether(q, PostList[i]) /\ ~InOneField(q, PostList[i]))
                      => PostList[i] \notin Range(filteredPosts)
                /\ (OccursIn(q, JoinedTagsOf(PostList[i]))
                        /\ InNoSingleTag(q, PostList[i]))
                      => PostList[i] \in Range(filteredPosts)

\* 'tb' spans the end of 'Spring Boot' and the start of 'Boot an app': the
\* post is dropped
C28_Witness ==
    /\ route = "blog"
    /\ posts = Some(<<Post(1), Post(2)>>)
    /\ searchTerm = <<"t", "b">>
    /\ InFieldsTogether(<<"t", "b">>, Post(1))
    /\ filteredPosts = <<>>

\* 'a s' spans the tags java and spring: the post is kept
C28_WitnessAcrossTags ==
    /\ route = "blog"
    /\ posts = Some(<<Post(1), Post(2)>>)
    /\ searchTerm = <<"a", " ", "s">>
    /\ InNoSingleTag(<<"a", " ", "s">>, Post(1))
    /\ filteredPosts = <<Post(1)>>

\* 'pj' spans the end of 'Boot an app' and the start of the tags: dropped
C28_WitnessDescriptionAndTags ==
    /\ route = "blog"
    /\ posts = Some(<<Post(1)>>)
    /\ searchTerm = <<"p", "j">>
    /\ InFieldsTogether(<<"p", "j">>, Post(1))
    /\ filteredPosts = <<>>

---------------------------------------------------------------------------
(* Composition of filters, and the shape of the tag counts *)

\* Filtering the list of the page by searchTerm twice is filtering it once,
\* and filtering by searchTerm and by any other term s gives the same result
\* in either order
FilterComposes ==
    LET once == filterPosts(posts, searchTerm)
    IN  /\ filterPosts(Some(once), searchTerm) = once
        /\ \A s \in Terms :
              filterPosts(Some(filterPosts(posts, s)), searchTerm)
                  = filterPosts(Some(once), s)

\* Every entry counts at least one occurrence, and no two entries have the
\* same name
CountsPositiveAndNamesDistinct ==
    /\ \A i \in DOMAIN tags :
          /\ tags[i].count.kind = "number"
          /\ tags[i].count.n >= 1
    /\ \A i, j \in DOMAIN tags : tags[i].name = tags[j].name => i = j

\* The names alone are pairwise distinct
NamesDistinct ==
    route = "tags" =>
        \A i, j \in DOMAIN tags : tags[i].name = tags[j].name => i = j

\* C29: filtering is idempotent and commutative, and every entry of the tag
\* cloud has a count >= 1 and a name no other entry has.
C29_FilterComposesAndCountsPositive ==
    /\ route = "blog" => FilterComposes
    /\ route = "tags" => CountsPositiveAndNamesDistinct

\* The filter part of C29 alone
C29_FilterPart == route = "blog" => FilterComposes

---------------------------------------------------------------------------
(* The table of contents *)

\* The ids present in the document when the i-th heading is visited: those
\* the document was rendered with and those given to the headings before it
IdsPresentAt(i) ==
    (otherIds \cup {rendered[j].id : j \in DOMAIN rendered}
         \cup {toc[j].id : j \in 1..(i - 1)}) \ {<<>>}

\* One entry per heading, in document order, with its trimmed text and level
OneEntryPerHeading ==
    /\ Len(toc) = Len(rendered)
    /\ \A i \in DOMAIN rendered :
          /\ toc[i].text = trim(rendered[i].textContent)
          /\ toc[i].level = toNumber(slice(rendered[i].tagName, 1))
          /\ headings[i].id = toc[i].id

\* A heading rendered with an id keeps it
RenderedIdsKept ==
    \A i \in DOMAIN rendered :
        rendered[i].id # <<>> => toc[i].id = rendered[i].id

\* An id given to a heading is the id of no element at that moment
GeneratedIdsFresh ==
    \A i \in DOMAIN rendered :
        rendered[i].id = <<>> => toc[i].id \notin IdsPresentAt(i)

TocIdsDistinct ==
    \A i, j \in DOMAIN toc : toc[i].id = toc[j].id => i = j

\* C30: once mounted, the table of contents has one entry per h2/h3 heading
\* of the article in document order, a heading rendered with an id keeps it,
\* a generated id is the id of no element at the moment it is given, and the
\* ids of the entries are pairwise distinct.
C30_TocEntriesHaveDistinctIds ==
    (route = "post" /\ mounted /\ data # None) =>
        /\ OneEntryPerHeading
        /\ RenderedIdsKept
        /\ GeneratedIdsFresh
        /\ TocIdsDistinct

\* Everything C30 says but the distinct ids
C30_EntriesWithoutDistinctness ==
    (route = "post" /\ mounted /\ data # None) =>
        /\ OneEntryPerHeading
        /\ RenderedIdsKept
        /\ GeneratedIdsFresh

\* The ids are distinct when at most one heading without id has a text
\* slugify leaves nothing of
C30_DistinctUnlessEmptySlugs ==
    (route = "post" /\ mounted /\ data # None
         /\ \A i, j \in DOMAIN rendered :
               (/\ rendered[i].id = <<>> /\ slugify(rendered[i].textContent) = <<>>
                /\ rendered[j].id = <<>> /\ slugify(rendered[j].textContent) = <<>>)
                   => i = j)
        => TocIdsDistinct

\* Two headings 'SQL!' in a document with an element of id sql: sql-1, sql-2
C30_WitnessEqualText ==
    /\ route = "post" /\ mounted /\ Len(rendered) = 2
    /\ otherIds = {idSql}
    /\ rendered[1].textContent = <<"S", "Q", "L", "!">>
    /\ rendered[2] = rendered[1]
    /\ toc[1].id = <<"s", "q", "l", "-", "1">>
    /\ toc[2].id = <<"s", "q", "l", "-", "2">>

\* Two headings without text: both entries have the empty id
C30_WitnessEmptyText ==
    /\ route = "post" /\ mounted /\ Len(rendered) = 2
    /\ rendered[1].textContent = <<>> /\ rendered[2].textContent = <<>>
    /\ toc[1].id = <<>> /\ toc[2].id = <<>>

====
